---- MODULE Spec2Model ----
(***************************************************************************)
(* FileDrive backend: the file service (upload, download, rename, delete)  *)
(* over a metadata store (MongoDB) and an object store (MinIO), and the    *)
(* DatabaseManager that holds the two connections, answers health checks  *)
(* and connects at startup, with or without retries.                       *)
(*                                                                         *)
(* Strings are sequences of one-character strings, so that basename,       *)
(* replace, split, strip, startswith and endswith are computed the way     *)
(* Python computes them.  The empty sequence is the empty string (and      *)
(* also stands for a missing value, which the code folds into "" with      *)
(* `or ""` / `not x`).                                                     *)
(***************************************************************************)
EXTENDS Integers, Sequences, FiniteSets, TLC

VARIABLES
    db_manager,          \* the DatabaseManager fields (connection.py:37-42)
    records,             \* metadata store: file_id -> file document
    objects,             \* object store: object key (file_id) -> bytes
    next_id,             \* the next identifier uuid4() hands out
    allowed_file_types,  \* settings.allowed_file_types
    phase,               \* "created" -> "serving" -> "closed"
    health_status,       \* result of the latest DatabaseManager.health_check
    last,                \* the latest response, with its request and its fault
    sent,                \* history: file_id -> bytes of the accepted upload
    named,               \* history: file_id -> name given by upload or rename
    delete_called,       \* history: ids on which delete_file reached the stores
    deleted,             \* history: ids whose delete_file returned success
    store_failed,        \* history: some store call failed or was refused
    arg,                 \* argument of the pure function under check
    result,              \* its result
    boot,                \* the run of startup_event / connect_with_retry
    requests             \* requests in flight, store call by store call

vars == << db_manager, records, objects, next_id, allowed_file_types, phase,
           health_status, last, sent, named, delete_called, deleted,
           store_failed, arg, result, boot, requests >>

(***************************************************************************)
(* Bounds of the model.                                                    *)
(***************************************************************************)
MaxFiles == 2        \* identifiers uuid4() may hand out in one run of Spec
MaxFaultFiles == 1   \* the same, in one run of SpecFaults
MaxNameLen == 2      \* length of the file names drawn for _sanitize_filename
MaxTypeLen == 3      \* length of the content types drawn for _validate_file_type

(***************************************************************************)
(* Python string primitives.                                               *)
(***************************************************************************)
\* s[i:] for 0 <= i
Drop(s, i) == SubSeq(s, i + 1, Len(s))

\* s[:k], k may be negative (Python counts it from the end)
Take(s, k) ==
    LET e == IF k < 0 THEN Len(s) + k ELSE k
        n == IF e < 0 THEN 0 ELSE IF e > Len(s) THEN Len(s) ELSE e
    IN  SubSeq(s, 1, n)

\* s.rfind(c): 0-based index of the last c, -1 when absent
RFind(s, c) ==
    LET hits == { i \in 1..Len(s) : s[i] = c }
    IN  IF hits = {} THEN -1
        ELSE (CHOOSE i \in hits : \A j \in hits : j <= i) - 1

\* s.find(c): 0-based index of the first c, -1 when absent
Find(s, c) ==
    LET hits == { i \in 1..Len(s) : s[i] = c }
    IN  IF hits = {} THEN -1
        ELSE (CHOOSE i \in hits : \A j \in hits : i <= j) - 1

StartsWith(s, p) == Len(p) <= Len(s) /\ SubSeq(s, 1, Len(p)) = p

EndsWith(s, p) == Len(p) <= Len(s) /\ SubSeq(s, Len(s) - Len(p) + 1, Len(s)) = p

\* s.replace(c, d) for single characters
Replace(s, c, d) == [ i \in 1..Len(s) |-> IF s[i] = c THEN d ELSE s[i] ]

RECURSIVE ReplaceAll(_, _, _)
\* the loop `for char in chars: s = s.replace(char, d)`
ReplaceAll(s, chars, d) ==
    IF chars = << >> THEN s
    ELSE ReplaceAll(Replace(s, Head(chars), d), Tail(chars), d)

RECURSIVE Strip(_)
\* s.strip(): drop leading and trailing blanks
Strip(s) ==
    IF s = << >> THEN s
    ELSE IF Head(s) = " " THEN Strip(Tail(s))
    ELSE IF s[Len(s)] = " " THEN Strip(SubSeq(s, 1, Len(s) - 1))
    ELSE s

RECURSIVE Split(_, _)
\* s.split(c): the pieces between occurrences of c (always at least one)
Split(s, c) ==
    LET i == Find(s, c)
    IN  IF i = -1 THEN << s >>
        ELSE << SubSeq(s, 1, i) >> \o Split(Drop(s, i + 1), c)

\* os.path.basename on a POSIX host: everything after the last "/"
basename(p) == Drop(p, RFind(p, "/") + 1)

RECURSIVE LeadingDots(_, _, _)
\* the scan of genericpath._splitext: is there a non-dot character in
\* p[filenameIndex:dotIndex] (0-based, half open)?
LeadingDots(p, filenameIndex, dotIndex) ==
    IF filenameIndex >= dotIndex THEN TRUE
    ELSE IF p[filenameIndex + 1] # "." THEN FALSE
    ELSE LeadingDots(p, filenameIndex + 1, dotIndex)

\* os.path.splitext: << root, ext >>, ext starting at the last dot of the
\* last path component unless that component has only leading dots
splitext(p) ==
    LET sepIndex == RFind(p, "/")
        dotIndex == RFind(p, ".")
    IN  IF dotIndex > sepIndex /\ ~LeadingDots(p, sepIndex + 1, dotIndex)
        THEN << SubSeq(p, 1, dotIndex), Drop(p, dotIndex) >>
        ELSE << p, << >> >>

(***************************************************************************)
(* FileService: the validation helpers.                                    *)
(***************************************************************************)
\* settings.max_file_size, in bytes.  Any positive value is a valid setting
\* (validate_max_file_size); the model runs with a ceiling of one byte so
\* that the bodies it draws fall below, on and above it.
max_file_size == 1

\* the 255 of _sanitize_filename
FilenameLimit == 255

unnamed_file == << "u", "n", "n", "a", "m", "e", "d", "_", "f", "i", "l", "e" >>

\* dangerous_chars without the backslash
dangerous_chars_noslash == << "<", ">", ":", "\"", "|", "?", "*", "/" >>

dangerous_chars == << "<", ">", ":", "\"", "|", "?", "*", "\\", "/" >>

\* _validate_file_size with >= for >
_validate_file_size_ge(file_size) == ~(file_size >= max_file_size)

\* _validate_file_size: TRUE when no HTTPException(413) is raised
_validate_file_size(file_size) == ~(file_size > max_file_size)

\* settings.allowed_file_types_list
allowed_file_types_list(setting) ==
    IF setting = << "*", "/", "*" >> THEN << << "*", "/", "*" >> >>
    ELSE LET parts == Split(setting, ",")
         IN  SelectSeq([ i \in 1..Len(parts) |-> Strip(parts[i]) ],
                       LAMBDA ft : ft # << >>)

\* the body of the loop of _validate_file_type for one allowed_type
type_matches(content_type, allowed_type) ==
    IF EndsWith(allowed_type, << "/", "*" >>)
    THEN LET base_type == Split(allowed_type, "/")[1]
         IN  StartsWith(content_type, base_type \o << "/" >>)
    ELSE content_type = allowed_type

\* _validate_file_type that only requires a content type
_validate_file_type_any(content_type, setting) ==
    IF content_type = << >> THEN 400 ELSE 0

\* _validate_file_type: 0 when it returns, else the status it raises
_validate_file_type(content_type, setting) ==
    LET types == allowed_file_types_list(setting)
    IN  IF content_type = << >> THEN 400
        ELSE IF \E i \in 1..Len(types) : type_matches(content_type, types[i])
        THEN 0
        ELSE 400

\* _sanitize_filename
_sanitize_filename(filename) ==
    IF filename = << >> THEN unnamed_file
    ELSE LET replaced == ReplaceAll(basename(filename), dangerous_chars, "_")
         IN  IF Len(replaced) > FilenameLimit
             THEN LET name == splitext(replaced)[1]
                      ext  == splitext(replaced)[2]
                  IN  Take(name, FilenameLimit - Len(ext)) \o ext
             ELSE replaced

(***************************************************************************)
(* DatabaseManager.                                                        *)
(***************************************************************************)
None == "None"

\* DatabaseManager.__init__
new_manager ==
    [ _mongodb_client |-> None, _minio_client |-> None, _database |-> None,
      _files_collection |-> None,
      _mongodb_connected |-> FALSE, _minio_connected |-> FALSE ]

\* a cleanup that leaves the manager as it is
_cleanup_mongodb_skipped(dm) == dm

_cleanup_mongodb(dm) ==
    [ dm EXCEPT !._mongodb_connected = FALSE, !._mongodb_client = None,
                !._database = None, !._files_collection = None ]

\* _cleanup_minio that clears the flag and keeps the client
_cleanup_minio_flag_only(dm) == [ dm EXCEPT !._minio_connected = FALSE ]

_cleanup_minio(dm) ==
    [ dm EXCEPT !._minio_connected = FALSE, !._minio_client = None ]

\* connect_to_mongodb; ok: the ping of the new client answers
connect_to_mongodb(dm, ok) ==
    IF ok
    THEN [ dm EXCEPT !._mongodb_client = "client", !._database = "database",
                     !._files_collection = "collection",
                     !._mongodb_connected = TRUE ]
    ELSE _cleanup_mongodb([ dm EXCEPT !._mongodb_client = "client" ])

\* connect_to_minio; ok: _ensure_minio_bucket_exists returns
connect_to_minio(dm, ok) ==
    IF ok
    THEN [ dm EXCEPT !._minio_client = "client", !._minio_connected = TRUE ]
    ELSE _cleanup_minio([ dm EXCEPT !._minio_client = "client" ])

\* the accessor properties: the handle they return, or DatabaseConnectionError
\* when they raise it
DatabaseConnectionError == "DatabaseConnectionError"

mongodb_client(dm) ==
    IF ~dm._mongodb_connected \/ dm._mongodb_client = None
    THEN DatabaseConnectionError ELSE dm._mongodb_client

minio_client(dm) ==
    IF ~dm._minio_connected \/ dm._minio_client = None
    THEN DatabaseConnectionError ELSE dm._minio_client

database(dm) ==
    IF ~dm._mongodb_connected \/ dm._database = None
    THEN DatabaseConnectionError ELSE dm._database

files_collection(dm) ==
    IF ~dm._mongodb_connected \/ dm._files_collection = None
    THEN DatabaseConnectionError ELSE dm._files_collection

no_health ==
    [ mongodb |-> [ connected |-> FALSE, status |-> "none" ],
      minio   |-> [ connected |-> FALSE, status |-> "none" ],
      overall |-> [ healthy |-> FALSE, status |-> "none" ] ]

\* the combination at the end of health_check
overall_health(mongodb_connected, minio_connected) ==
    LET overall_healthy == mongodb_connected \/ minio_connected
    IN  [ healthy |-> overall_healthy,
          status  |-> IF overall_healthy THEN "healthy" ELSE "unhealthy" ]

\* health_check that pings every store and takes an answer for a connection
health_check_reconnecting(dm, ping_mongodb, ping_minio) ==
    LET dm1 == connect_to_mongodb(dm, ping_mongodb)
        dm2 == connect_to_minio(dm1, ping_minio)
    IN  [ dm |-> dm2,
          status |->
            [ mongodb |-> [ connected |-> ping_mongodb,
                            status |-> IF ping_mongodb THEN "healthy"
                                       ELSE "disconnected" ],
              minio   |-> [ connected |-> ping_minio,
                            status |-> IF ping_minio THEN "healthy"
                                       ELSE "disconnected" ],
              overall |-> overall_health(ping_mongodb, ping_minio) ] ]

\* DatabaseManager.health_check; ping_mongodb / ping_minio: the store answers
\* the ping should one be sent.  Returns the manager and the status dict.
health_check(dm, ping_mongodb, ping_minio) ==
    LET try_mongodb == dm._mongodb_connected /\ dm._mongodb_client # None
        mongodb_ok  == try_mongodb /\ ping_mongodb
        dm1         == IF try_mongodb /\ ~ping_mongodb
                       THEN _cleanup_mongodb(dm) ELSE dm
        try_minio   == dm1._minio_connected /\ dm1._minio_client # None
        minio_ok    == try_minio /\ ping_minio
        dm2         == IF try_minio /\ ~ping_minio
                       THEN _cleanup_minio(dm1) ELSE dm1
    IN  [ dm |-> dm2,
          status |->
            [ mongodb |-> [ connected |-> mongodb_ok,
                            status |-> IF mongodb_ok THEN "healthy"
                                       ELSE "disconnected" ],
              minio   |-> [ connected |-> minio_ok,
                            status |-> IF minio_ok THEN "healthy"
                                       ELSE "disconnected" ],
              overall |-> overall_health(mongodb_ok, minio_ok) ] ]

\* a connect call that lets the exception of a failed attempt out
connect_raises(ok) == IF ok THEN "True" ELSE "raise"

\* what a call of connect_to_mongodb / connect_to_minio hands its caller:
\* every Exception is caught inside and turned into False
connect_returns(ok) == IF ok THEN "True" ELSE "False"

\* `argument or setting`: an argument of None (<< >>) or 0 gives the setting
py_or(argument, setting) ==
    IF argument = << >> \/ argument = << 0 >> THEN setting ELSE argument[1]

\* the results dict connect_with_retry starts from
no_results ==
    [ mongodb |-> [ success |-> FALSE, attempts |-> 0, error |-> None ],
      minio   |-> [ success |-> FALSE, attempts |-> 0, error |-> None ] ]

\* range(max_retries): the value after attempt
range_next(attempt) == attempt + 1

\* a delay that grows with 2 ** attempt
retry_delay_late(initial_delay, attempt) == initial_delay * (2 ^ attempt)

\* the delay slept before attempt number attempt + 1 (attempt > 0)
retry_delay(initial_delay, attempt) == initial_delay * (2 ^ (attempt - 1))

\* the process that runs startup_event or a call of connect_with_retry,
\* before it starts; sleeps, calls and succeeded are history
no_boot ==
    [ pc |-> "start", caller |-> "none",
      db_retry_enabled |-> TRUE, db_max_retries |-> 1, db_retry_delay |-> 1,
      arg_max_retries |-> << >>, arg_initial_delay |-> << >>,
      max_retries |-> 0, initial_delay |-> 0,
      store |-> "mongodb", attempt |-> 0, broke |-> FALSE,
      results |-> no_results,
      mongodb_success |-> FALSE, minio_success |-> FALSE,
      sleeps |-> << >>,
      calls |-> [ mongodb |-> 0, minio |-> 0 ],
      succeeded |-> [ mongodb |-> FALSE, minio |-> FALSE ] ]

\* connect_with_retry up to its first loop (lines 218-224)
connect_with_retry(b, caller, max_retries, initial_delay) ==
    [ b EXCEPT !.pc = "retry", !.caller = caller,
               !.arg_max_retries = max_retries,
               !.arg_initial_delay = initial_delay,
               !.max_retries = py_or(max_retries, b.db_max_retries),
               !.initial_delay = py_or(initial_delay, b.db_retry_delay),
               !.results = no_results,
               !.store = "mongodb", !.attempt = 0, !.broke = FALSE ]

\* one iteration of a retry loop of connect_with_retry on b.store, returned
\* being what the connect call hands back
retry_iteration(b, returned) ==
    LET store   == b.store
        attempt == b.attempt
        b1 == [ b EXCEPT !.results[store].attempts = attempt + 1,
                         !.calls[store] = @ + 1,
                         !.sleeps =
                           IF attempt > 0
                           THEN Append(@, [ store |-> store,
                                            attempt |-> attempt + 1,
                                            delay |-> retry_delay(
                                                        b.initial_delay,
                                                        attempt) ])
                           ELSE @ ]
    IN  IF returned = "True"
        THEN [ b1 EXCEPT !.results[store].success = TRUE,
                         !.succeeded[store] = TRUE, !.broke = TRUE ]
        ELSE IF returned = "False"
        THEN [ b1 EXCEPT !.attempt = range_next(attempt) ]
        ELSE [ b1 EXCEPT !.results[store].error = "error",
                         !.attempt = range_next(attempt) ]

\* DatabaseManager.close_connections
close_connections(dm) ==
    LET dm1 == IF dm._mongodb_connected /\ dm._mongodb_client # None
               THEN _cleanup_mongodb(dm) ELSE dm
    IN  IF dm1._minio_connected /\ dm1._minio_client # None
        THEN _cleanup_minio(dm1) ELSE dm1

(***************************************************************************)
(* The two stores, as the client calls the service makes on them.          *)
(***************************************************************************)
NoStore == [ k \in {} |-> 0 ]

Without(f, k) == [ x \in DOMAIN f \ {k} |-> f[x] ]

\* files_collection.find(): the cursors it may yield, every document once,
\* in an order the store chooses
find(recs) ==
    { [ i \in 1..Cardinality(DOMAIN recs) |-> recs[order[i]] ] :
        order \in { o \in [ 1..Cardinality(DOMAIN recs) -> DOMAIN recs ] :
                      \A i, j \in DOMAIN o : o[i] = o[j] => i = j } }

\* find_one that answers a document for every file_id
find_one_any(recs, file_id) == << [ file_id |-> file_id ] >>

\* files_collection.find_one({"file_id": file_id}): << >> for None
find_one(recs, file_id) ==
    IF file_id \in DOMAIN recs THEN << recs[file_id] >> ELSE << >>

\* files_collection.insert_one(file_data)
insert_one(recs, file_data) == (file_data.file_id :> file_data) @@ recs

\* update_one with an empty filter: it updates the first document
update_one_unfiltered(recs, file_id, name) ==
    IF recs = NoStore THEN recs
    ELSE LET first == CHOOSE id \in DOMAIN recs :
                        \A other \in DOMAIN recs : id <= other
         IN  [ recs EXCEPT ![first] = [ @ EXCEPT !.name = name ] ]

\* update_one with a $set that also rewrites the extension from the new name
update_one_ext(recs, file_id, name) ==
    IF file_id \in DOMAIN recs
    THEN [ recs EXCEPT ![file_id] = [ @ EXCEPT !.name = name,
                                               !.extension = splitext(name)[2] ] ]
    ELSE recs

\* files_collection.update_one({"file_id": file_id}, {"$set": {"name": name}})
update_one(recs, file_id, name) ==
    IF file_id \in DOMAIN recs
    THEN [ recs EXCEPT ![file_id] = [ @ EXCEPT !.name = name ] ]
    ELSE recs

\* delete_one with a filter that matches no document
delete_one_nomatch(recs, file_id) == recs

\* files_collection.delete_one({"file_id": file_id})
delete_one(recs, file_id) == Without(recs, file_id)

\* put_object under a key that is not the file_id
put_object_misplaced(objs, file_id, file_content) ==
    (0 :> file_content) @@ objs

\* put_object with length one short of the content
put_object_short(objs, file_id, file_content) ==
    (file_id :> SubSeq(file_content, 1, Len(file_content) - 1)) @@ objs

\* minio_client.put_object(bucket, file_id, BytesIO(file_content), ...)
put_object(objs, file_id, file_content) == (file_id :> file_content) @@ objs

\* minio_client.get_object(bucket, file_id).read(); only called on a key
\* that exists (a missing key raises S3Error)
get_object(objs, file_id) == objs[file_id]

\* minio_client.remove_object(bucket, file_id); removing a missing key is
\* not an error in S3
remove_object(objs, file_id) == Without(objs, file_id)

\* the document with the extension taken from the name without its dot
file_data_bare_ext(file_id, sanitized_filename, file_content, content_type, now) ==
    [ file_id |-> file_id, name |-> sanitized_filename,
      size |-> Len(file_content), content_type |-> content_type,
      upload_date |-> now,
      extension |-> Drop(splitext(sanitized_filename)[2], 1) ]

\* the document upload_file builds (lines 128-135)
file_data(file_id, sanitized_filename, file_content, content_type, now) ==
    [ file_id |-> file_id, name |-> sanitized_filename,
      size |-> Len(file_content), content_type |-> content_type,
      upload_date |-> now, extension |-> splitext(sanitized_filename)[2] ]

(***************************************************************************)
(* FileService: the request handlers.  Each returns the outcome of one     *)
(* whole request run against the current stores: the response, the stores  *)
(* after it, and what it did on the way.  fail_at names the one call that   *)
(* fails in this request ("none" when every call that is made succeeds);   *)
(* a handler stops at its first failure, so one name is enough.            *)
(***************************************************************************)
Outcome(status, detail, body, recs, objs, id, read_called, minio_calls, mongo_calls, failed) ==
    [ status |-> status, detail |-> detail, body |-> body,
      records |-> recs, objects |-> objs, file_id |-> id,
      read_called |-> read_called, minio_calls |-> minio_calls,
      mongo_calls |-> mongo_calls, failed |-> failed ]

\* a response that touched nothing
Reject(status, detail) ==
    Outcome(status, detail, << >>, records, objects, 0, FALSE, 0, 0, FALSE)

\* FileService.list_files; cursor: the documents in the order find() yields
\* them (the _id that the handler turns into a string is not modelled)
list_files(cursor, fail_at) ==
    IF files_collection(db_manager) = DatabaseConnectionError
    THEN Outcome(500, "Failed to list files", << >>, records, objects, 0,
                 FALSE, 0, 0, TRUE)
    ELSE IF fail_at = "find"
    THEN Outcome(500, "Failed to list files", << >>, records, objects, 0,
                 FALSE, 0, 1, TRUE)
    ELSE Outcome(200, "OK", cursor, records, objects, 0, FALSE, 0, 1, FALSE)

\* get_file_by_id that answers None when the lookup fails
get_file_by_id_swallow(file_id, fail_at) ==
    IF file_id = 0 THEN << 400, << >> >>
    ELSE IF files_collection(db_manager) = DatabaseConnectionError
            \/ fail_at = "find_one"
    THEN << 0, << >> >>
    ELSE << 0, find_one(records, file_id) >>

\* FileService.get_file_by_id: << status of the HTTPException it raises or 0
\* when it returns, the document or << >> for None >>
get_file_by_id(file_id, fail_at) ==
    IF file_id = 0 THEN << 400, << >> >>
    ELSE IF files_collection(db_manager) = DatabaseConnectionError
            \/ fail_at = "find_one"
    THEN << 500, << >> >>
    ELSE << 0, find_one(records, file_id) >>

\* upload_file that removes the object again when the insert fails
upload_file_rollback(filename, content_type, file_content, fail_at) ==
    IF filename = << >> THEN Reject(400, "No file provided")
    ELSE IF _validate_file_type(content_type, allowed_file_types) # 0
    THEN Reject(400, IF content_type = << >>
                     THEN "File content type is required"
                     ELSE "File type is not allowed")
    ELSE IF fail_at = "read"
    THEN Outcome(400, "Failed to read file", << >>, records, objects, 0,
                 TRUE, 0, 0, FALSE)
    ELSE IF ~_validate_file_size(Len(file_content))
    THEN Outcome(413, "File size exceeds maximum allowed size", << >>,
                 records, objects, 0, TRUE, 0, 0, FALSE)
    ELSE IF \/ minio_client(db_manager) = DatabaseConnectionError
            \/ fail_at = "put_object"
    THEN Outcome(500, "Storage error", << >>, records, objects, next_id,
                 TRUE, 1, 0, TRUE)
    ELSE IF \/ files_collection(db_manager) = DatabaseConnectionError
            \/ fail_at = "insert_one"
    THEN Outcome(500, "Upload failed", << >>, records, objects, next_id,
                 TRUE, 2, 1, TRUE)
    ELSE Outcome(200, "File uploaded successfully", << >>,
                 insert_one(records,
                            file_data(next_id, _sanitize_filename(filename),
                                      file_content, content_type, next_id)),
                 put_object(objects, next_id, file_content), next_id,
                 TRUE, 1, 1, FALSE)

\* FileService.upload_file
upload_file(filename, content_type, file_content, fail_at) ==
    IF filename = << >> THEN Reject(400, "No file provided")
    ELSE IF _validate_file_type(content_type, allowed_file_types) # 0
    THEN Reject(400, IF content_type = << >>
                     THEN "File content type is required"
                     ELSE "File type is not allowed")
    ELSE IF fail_at = "read"
    THEN Outcome(400, "Failed to read file", << >>, records, objects, 0,
                 TRUE, 0, 0, FALSE)
    ELSE IF ~_validate_file_size(Len(file_content))
    THEN Outcome(413, "File size exceeds maximum allowed size", << >>,
                 records, objects, 0, TRUE, 0, 0, FALSE)
    ELSE
      LET sanitized_filename == _sanitize_filename(filename)
          file_id == next_id
      IN  IF minio_client(db_manager) = DatabaseConnectionError
          THEN Outcome(500, "Upload failed", << >>, records, objects,
                       file_id, TRUE, 0, 0, TRUE)
          ELSE IF fail_at = "put_object"
          THEN Outcome(500, "Storage error", << >>, records, objects,
                       file_id, TRUE, 1, 0, TRUE)
          ELSE
            LET objs == put_object(objects, file_id, file_content)
                doc  == file_data(file_id, sanitized_filename, file_content,
                                  content_type, next_id)
            IN  IF files_collection(db_manager) = DatabaseConnectionError
                THEN Outcome(500, "Upload failed", << >>, records, objs,
                             file_id, TRUE, 1, 0, TRUE)
                ELSE IF fail_at = "insert_one"
                THEN Outcome(500, "Upload failed", << >>, records, objs,
                             file_id, TRUE, 1, 1, TRUE)
                ELSE Outcome(200, "File uploaded successfully", << >>,
                             insert_one(records, doc), objs, file_id,
                             TRUE, 1, 1, FALSE)

\* FileService.download_file
download_file(file_id, fail_at) ==
    IF file_id = 0 THEN Reject(400, "File ID is required")
    ELSE
      LET found == get_file_by_id(file_id, fail_at)
          calls == IF files_collection(db_manager) = DatabaseConnectionError
                   THEN 0 ELSE 1
      IN  IF found[1] # 0
          THEN Outcome(500, "Failed to get file", << >>, records, objects,
                       file_id, FALSE, 0, calls, TRUE)
          ELSE IF found[2] = << >>
          THEN Outcome(404, "File not found", << >>, records, objects,
                       file_id, FALSE, 0, 1, FALSE)
          ELSE IF minio_client(db_manager) = DatabaseConnectionError
          THEN Outcome(500, "Download failed", << >>, records, objects,
                       file_id, FALSE, 0, 1, TRUE)
          ELSE IF fail_at = "get_object" \/ file_id \notin DOMAIN objects
          THEN Outcome(500, "Download failed", << >>, records, objects,
                       file_id, FALSE, 1, 1, TRUE)
          ELSE Outcome(200, "OK", get_object(objects, file_id), records,
                       objects, file_id, FALSE, 1, 1, FALSE)

\* update_file_name that looks the record up before it checks the new name
update_file_name_lookup_first(file_id, new_name, fail_at) ==
    IF file_id = 0 THEN Reject(400, "File ID is required")
    ELSE
      LET found == get_file_by_id(file_id, fail_at)
      IN  IF found[1] # 0
          THEN Outcome(500, "Failed to get file", << >>, records, objects,
                       file_id, FALSE, 0, 1, TRUE)
          ELSE IF found[2] = << >>
          THEN Outcome(404, "File not found", << >>, records, objects,
                       file_id, FALSE, 0, 1, FALSE)
          ELSE IF new_name = << >>
          THEN Outcome(400, "New file name is required", << >>, records,
                       objects, file_id, FALSE, 0, 1, FALSE)
          ELSE IF fail_at = "update_one"
          THEN Outcome(500, "Failed to update file name", << >>, records,
                       objects, file_id, FALSE, 0, 2, TRUE)
          ELSE Outcome(200, "File name updated successfully", << >>,
                       update_one(records, file_id,
                                  _sanitize_filename(new_name)),
                       objects, file_id, FALSE, 0, 2, FALSE)

\* FileService.update_file_name
update_file_name(file_id, new_name, fail_at) ==
    IF file_id = 0 THEN Reject(400, "File ID is required")
    ELSE IF new_name = << >> THEN Reject(400, "New file name is required")
    ELSE
      LET sanitized_name == _sanitize_filename(new_name)
          found == get_file_by_id(file_id, fail_at)
          calls == IF files_collection(db_manager) = DatabaseConnectionError
                   THEN 0 ELSE 1
      IN  IF found[1] # 0
          THEN Outcome(500, "Failed to get file", << >>, records, objects,
                       file_id, FALSE, 0, calls, TRUE)
          ELSE IF found[2] = << >>
          THEN Outcome(404, "File not found", << >>, records, objects,
                       file_id, FALSE, 0, 1, FALSE)
          ELSE IF fail_at = "update_one"
          THEN Outcome(500, "Failed to update file name", << >>, records,
                       objects, file_id, FALSE, 0, 2, TRUE)
          ELSE Outcome(200, "File name updated successfully", << >>,
                       update_one(records, file_id, sanitized_name),
                       objects, file_id, FALSE, 0, 2, FALSE)

\* delete_file that deletes the record before it removes the object
delete_file_record_first(file_id, fail_at) ==
    IF file_id = 0 THEN Reject(400, "File ID is required")
    ELSE
      LET found == get_file_by_id(file_id, fail_at)
      IN  IF found[1] # 0
          THEN Outcome(500, "Failed to get file", << >>, records, objects,
                       file_id, FALSE, 0, 1, TRUE)
          ELSE IF found[2] = << >>
          THEN Outcome(404, "File not found", << >>, records, objects,
                       file_id, FALSE, 0, 1, FALSE)
          ELSE IF fail_at = "delete_one"
          THEN Outcome(500, "Delete failed", << >>, records, objects,
                       file_id, FALSE, 0, 2, TRUE)
          ELSE IF \/ minio_client(db_manager) = DatabaseConnectionError
                  \/ fail_at = "remove_object"
          THEN Outcome(500, "Storage error", << >>,
                       delete_one(records, file_id), objects, file_id,
                       FALSE, 1, 2, TRUE)
          ELSE Outcome(200, "File deleted successfully", << >>,
                       delete_one(records, file_id),
                       remove_object(objects, file_id), file_id,
                       FALSE, 1, 2, FALSE)

\* delete_file without its file_id check
delete_file_unchecked(file_id, fail_at) ==
    LET found == find_one(records, file_id)
    IN  IF found = << >>
        THEN Outcome(404, "File not found", << >>, records, objects,
                     file_id, FALSE, 0, 1, FALSE)
        ELSE Outcome(200, "File deleted successfully", << >>,
                     delete_one(records, file_id),
                     remove_object(objects, file_id), file_id,
                     FALSE, 1, 2, FALSE)

\* FileService.delete_file
delete_file(file_id, fail_at) ==
    IF file_id = 0 THEN Reject(400, "File ID is required")
    ELSE
      LET found == get_file_by_id(file_id, fail_at)
          calls == IF files_collection(db_manager) = DatabaseConnectionError
                   THEN 0 ELSE 1
      IN  IF found[1] # 0
          THEN Outcome(500, "Failed to get file", << >>, records, objects,
                       file_id, FALSE, 0, calls, TRUE)
          ELSE IF found[2] = << >>
          THEN Outcome(404, "File not found", << >>, records, objects,
                       file_id, FALSE, 0, 1, FALSE)
          ELSE IF minio_client(db_manager) = DatabaseConnectionError
          THEN Outcome(500, "Delete failed", << >>, records, objects,
                       file_id, FALSE, 0, 1, TRUE)
          ELSE IF fail_at = "remove_object"
          THEN Outcome(500, "Storage error", << >>, records, objects,
                       file_id, FALSE, 1, 1, TRUE)
          ELSE
            LET objs == remove_object(objects, file_id)
            IN  IF fail_at = "delete_one"
                THEN Outcome(500, "Delete failed", << >>, records, objs,
                             file_id, FALSE, 1, 2, TRUE)
                ELSE Outcome(200, "File deleted successfully", << >>,
                             delete_one(records, file_id), objs, file_id,
                             FALSE, 1, 2, FALSE)

(***************************************************************************)
(* Requests the model draws.                                               *)
(***************************************************************************)
UploadNames == { << >>, << "a", ".", "t" >> }     \* << >>: no file name

NewNames == { << >>, << "d", "/", "b" >> }

ContentTypes == { << >>, << "t", "/", "p" >>, << "x", "/", "y" >> }

Contents == { << 1 >>, << 2 >> }

FaultContents == { << 1 >>, << 1, 1 >> }        \* within and over the ceiling

Settings == { << "*", "/", "*" >>, << "t", "/", "*" >> }

no_response ==
    [ op |-> "none", file_id |-> 0, filename |-> << >>, content_type |-> << >>,
      size |-> 0, status |-> 0, detail |-> "", body |-> << >>,
      read_called |-> FALSE, minio_calls |-> 0, mongo_calls |-> 0,
      failed |-> FALSE, files |-> << >>, fail_at |-> "none" ]

Response(op, filename, content_type, size, out) ==
    [ op |-> op, file_id |-> out.file_id, filename |-> filename,
      content_type |-> content_type, size |-> size, status |-> out.status,
      detail |-> out.detail, body |-> out.body,
      read_called |-> out.read_called, minio_calls |-> out.minio_calls,
      mongo_calls |-> out.mongo_calls, failed |-> out.failed,
      files |-> << >>, fail_at |-> "none" ]

(***************************************************************************)
(* Initial state: the module-level db_manager has just been constructed    *)
(* and both stores are empty.                                              *)
(***************************************************************************)
InitWith(setting, a, b) ==
    /\ db_manager = new_manager
    /\ records = NoStore
    /\ objects = NoStore
    /\ next_id = 1
    /\ allowed_file_types = setting
    /\ phase = "created"
    /\ health_status = no_health
    /\ last = no_response
    /\ sent = NoStore
    /\ named = NoStore
    /\ delete_called = {}
    /\ deleted = {}
    /\ store_failed = FALSE
    /\ arg = a
    /\ result = << >>
    /\ boot = b
    /\ requests = << >>

Init == \E setting \in Settings : InitWith(setting, << >>, no_boot)

(***************************************************************************)
(* Actions.                                                                *)
(***************************************************************************)
\* startup_event: connect both stores (through connect_with_retry or
\* directly; connect_mongodb / connect_minio is the outcome of the attempt
\* that ends the sequence), then a first health check
startup_event(connect_mongodb, connect_minio, ping_mongodb, ping_minio) ==
    /\ phase = "created"
    /\ \E hc \in { health_check(
                     connect_to_minio(
                       connect_to_mongodb(db_manager, connect_mongodb),
                       connect_minio),
                     ping_mongodb, ping_minio) } :
           /\ db_manager' = hc.dm
           /\ health_status' = hc.status
    /\ phase' = "serving"
    /\ UNCHANGED << boot, records, objects, next_id, allowed_file_types, last,
                    sent, named, delete_called, deleted, store_failed, arg,
                    result, requests >>

\* shutdown_event
shutdown_event ==
    /\ phase = "serving"
    /\ db_manager' = close_connections(db_manager)
    /\ phase' = "closed"
    /\ UNCHANGED << boot, records, objects, next_id, allowed_file_types,
                    health_status, last, sent, named, delete_called, deleted,
                    store_failed, arg, result, requests >>

\* the JSON response of GET /health for a status dict of the manager
health_response(db_status) ==
    [ no_response EXCEPT
        !.op = "health",
        !.status = IF db_status.overall.healthy THEN 200 ELSE 503,
        !.detail = IF db_status.overall.healthy THEN "healthy"
                   ELSE "degraded" ]

\* GET /health; raises: the call of db_manager.health_check raises
GetHealth(ping_mongodb, ping_minio, raises) ==
    /\ phase = "serving"
    /\ IF raises
       THEN /\ last' = [ no_response EXCEPT !.op = "health", !.status = 503,
                                            !.detail = "unhealthy",
                                            !.failed = TRUE ]
            /\ UNCHANGED << db_manager, health_status >>
       ELSE \E hc \in { health_check(db_manager, ping_mongodb, ping_minio) } :
                /\ db_manager' = hc.dm
                /\ health_status' = hc.status
                /\ last' = health_response(hc.status)
    /\ UNCHANGED << boot, records, objects, next_id, allowed_file_types,
                    phase, sent, named, delete_called, deleted, store_failed,
                    arg, result, requests >>

\* GET /files
List(cursor, fail_at) ==
    /\ phase = "serving"
    /\ \E out \in { list_files(cursor, fail_at) } :
           /\ last' = [ Response("list", << >>, << >>, 0, out) EXCEPT
                          !.body = << >>, !.files = out.body,
                          !.fail_at = fail_at ]
           /\ store_failed' = (store_failed \/ out.failed)
    /\ UNCHANGED << boot, db_manager, records, objects, next_id,
                    allowed_file_types, phase, health_status, sent, named,
                    delete_called, deleted, arg, result, requests >>

\* a call of FileService.get_file_by_id
GetFile(file_id, fail_at) ==
    /\ phase = "serving"
    /\ \E found \in { get_file_by_id(file_id, fail_at) } :
         \E out \in { IF found[1] = 400
                      THEN Reject(400, "File ID is required")
                      ELSE IF found[1] = 500
                      THEN Outcome(500, "Failed to get file", << >>, records,
                                   objects, file_id, FALSE, 0,
                                   IF files_collection(db_manager)
                                        = DatabaseConnectionError
                                   THEN 0 ELSE 1, TRUE)
                      ELSE Outcome(200, "OK", found[2], records, objects,
                                   file_id, FALSE, 0, 1, FALSE) } :
           /\ last' = [ Response("get", << >>, << >>, 0, out) EXCEPT
                          !.file_id = file_id, !.body = << >>,
                          !.files = out.body, !.fail_at = fail_at ]
           /\ store_failed' = (store_failed \/ out.failed)
    /\ UNCHANGED << boot, db_manager, records, objects, next_id,
                    allowed_file_types, phase, health_status, sent, named,
                    delete_called, deleted, arg, result, requests >>

\* POST /files/upload; max_ids bounds the identifiers uuid4() hands out
Upload(filename, content_type, file_content, fail_at, max_ids) ==
    /\ phase = "serving"
    /\ \E out \in { upload_file(filename, content_type, file_content,
                                fail_at) } :
           /\ out.file_id # 0 => next_id <= max_ids
           /\ records' = out.records
           /\ objects' = out.objects
           /\ next_id' = IF out.file_id # 0 THEN next_id + 1 ELSE next_id
           /\ last' = [ Response("upload", filename, content_type,
                                 Len(file_content), out) EXCEPT
                          !.fail_at = fail_at ]
           /\ sent' = IF out.status = 200
                      THEN (out.file_id :> file_content) @@ sent ELSE sent
           /\ named' = IF out.status = 200
                       THEN (out.file_id :> _sanitize_filename(filename))
                            @@ named
                       ELSE named
           /\ store_failed' = (store_failed \/ out.failed)
    /\ UNCHANGED << boot, db_manager, allowed_file_types, phase,
                    health_status, delete_called, deleted, arg, result,
                    requests >>

\* GET /files/download/{file_id}
Download(file_id, fail_at) ==
    /\ phase = "serving"
    /\ \E out \in { download_file(file_id, fail_at) } :
           /\ records' = out.records
           /\ objects' = out.objects
           /\ last' = [ Response("download", << >>, << >>, 0, out) EXCEPT
                          !.file_id = file_id, !.fail_at = fail_at ]
           /\ store_failed' = (store_failed \/ out.failed)
    /\ UNCHANGED << boot, db_manager, next_id, allowed_file_types, phase,
                    health_status, sent, named, delete_called, deleted, arg,
                    result, requests >>

\* PUT /files/{file_id}?name=
Rename(file_id, new_name, fail_at) ==
    /\ phase = "serving"
    /\ \E out \in { update_file_name(file_id, new_name, fail_at) } :
           /\ records' = out.records
           /\ objects' = out.objects
           /\ last' = [ Response("rename", new_name, << >>, 0, out) EXCEPT
                          !.file_id = file_id, !.fail_at = fail_at ]
           /\ store_failed' = (store_failed \/ out.failed)
           /\ named' = IF out.status = 200
                       THEN (file_id :> _sanitize_filename(new_name)) @@ named
                       ELSE named
    /\ UNCHANGED << boot, db_manager, next_id, allowed_file_types, phase,
                    health_status, sent, delete_called, deleted, arg, result,
                    requests >>

\* DELETE /files/{file_id}
Delete(file_id, fail_at) ==
    /\ phase = "serving"
    /\ \E out \in { delete_file(file_id, fail_at) } :
           /\ records' = out.records
           /\ objects' = out.objects
           /\ last' = [ Response("delete", << >>, << >>, 0, out) EXCEPT
                          !.file_id = file_id, !.fail_at = fail_at ]
           /\ store_failed' = (store_failed \/ out.failed)
           /\ delete_called' = IF out.minio_calls > 0
                               THEN delete_called \cup { file_id }
                               ELSE delete_called
           /\ deleted' = IF out.status = 200
                         THEN deleted \cup { file_id } ELSE deleted
    /\ UNCHANGED << boot, db_manager, next_id, allowed_file_types, phase,
                    health_status, sent, named, arg, result, requests >>

(***************************************************************************)
(* Spec: the service over MaxFiles identifiers.  Every store call that is  *)
(* made on a connected store answers; a store that is not connected (it    *)
(* never connected, or a health ping marked it down) refuses the call.     *)
(***************************************************************************)
Startup == \E cm, co, pm, po \in BOOLEAN : startup_event(cm, co, pm, po)

Shutdown == shutdown_event

Health == \E pm, po, raises \in BOOLEAN : GetHealth(pm, po, raises)

UploadFile ==
    \E filename \in UploadNames \ { << >> },
       content_type \in ContentTypes \ { << >> },
       file_content \in Contents :
        Upload(filename, content_type, file_content, "none", MaxFiles)

DownloadFile == \E file_id \in 1..MaxFiles : Download(file_id, "none")

RenameFile ==
    \E file_id \in 1..MaxFiles, new_name \in NewNames :
        Rename(file_id, new_name, "none")

DeleteFile == \E file_id \in 1..MaxFiles : Delete(file_id, "none")

ListFiles == \E cursor \in find(records) : List(cursor, "none")

Next ==
    \/ Startup
    \/ Shutdown
    \/ Health
    \/ UploadFile
    \/ DownloadFile
    \/ RenameFile
    \/ DeleteFile
    \/ ListFiles

Spec == Init /\ [][Next]_vars

(***************************************************************************)
(* SpecFaults: the service over MaxFaultFiles identifiers, with every      *)
(* request input drawn (missing file name, empty file_id, empty or         *)
(* disallowed content type, oversized body) and with any one call of a     *)
(* request failing (the body read, or a call on either store).             *)
(***************************************************************************)
FaultyUpload ==
    \E filename \in UploadNames, content_type \in ContentTypes,
       file_content \in FaultContents,
       fail_at \in { "none", "read", "put_object", "insert_one" } :
        Upload(filename, content_type, file_content, fail_at, MaxFaultFiles)

FaultyDownload ==
    \E file_id \in 0..MaxFaultFiles,
       fail_at \in { "none", "find_one", "get_object" } :
        Download(file_id, fail_at)

FaultyRename ==
    \E file_id \in 0..MaxFaultFiles, new_name \in NewNames,
       fail_at \in { "none", "find_one", "update_one" } :
        Rename(file_id, new_name, fail_at)

FaultyDelete ==
    \E file_id \in 0..MaxFaultFiles,
       fail_at \in { "none", "find_one", "remove_object", "delete_one" } :
        Delete(file_id, fail_at)

FaultyList ==
    \E cursor \in find(records), fail_at \in { "none", "find" } :
        List(cursor, fail_at)

FaultyGet ==
    \E file_id \in 0..MaxFaultFiles, fail_at \in { "none", "find_one" } :
        GetFile(file_id, fail_at)

NextFaults ==
    \/ Startup
    \/ Shutdown
    \/ Health
    \/ FaultyUpload
    \/ FaultyDownload
    \/ FaultyRename
    \/ FaultyDelete
    \/ FaultyList
    \/ FaultyGet

SpecFaults == Init /\ [][NextFaults]_vars

(***************************************************************************)
(* SpecValidate: _validate_file_type applied to every content type of at   *)
(* most MaxTypeLen characters under each of a few allow-list settings.     *)
(***************************************************************************)
SeqsUpTo(S, n) == UNION { [ 1..k -> S ] : k \in 0..n }

TypeChars == { "t", "p", "/", "*" }

ValSettings ==
    { << "*", "/", "*" >>,
      << "t", "/", "*" >>,
      << "t", "/", "p" >>,
      << "p", "/", "t", ",", " ", "t", "/", "*" >>,
      << " ", "t", "/", "p", " ", ",", ",", "p", "/", "p" >>,
      << >> }

InitValidate ==
    \E setting \in ValSettings, content_type \in SeqsUpTo(TypeChars, MaxTypeLen) :
        InitWith(setting, content_type, no_boot)

Validate ==
    /\ result = << >>
    /\ result' = << _validate_file_type(arg, allowed_file_types) >>
    /\ UNCHANGED << boot, db_manager, records, objects, next_id,
                    allowed_file_types, phase, health_status, last, sent,
                    named, delete_called, deleted, store_failed, arg,
                    requests >>

NextValidate == Validate

SpecValidate == InitValidate /\ [][NextValidate]_vars

(***************************************************************************)
(* SpecSanitize: _sanitize_filename applied to every file name of at most  *)
(* MaxNameLen characters, on its own and as the name of an upload and of   *)
(* a rename.                                                               *)
(***************************************************************************)
NameChars == { "a", ".", "<", ">", ":", "\"", "|", "?", "*", "\\", "/" }

\* c repeated n times
Rep(c, n) == [ i \in 1..n |-> c ]

\* names around the length limit: a run of one letter of length 254, 255
\* or 256 after nothing, a dot, a stem and a dot, or a directory, and
\* before nothing, an extension, a dot, or an extension with a character
\* that is replaced
LongNames ==
    { pre \o Rep("a", n) \o suf :
        pre \in { << >>, << "." >>, << "a", "." >>, << "d", "/" >> },
        n \in (FilenameLimit - 1)..(FilenameLimit + 1),
        suf \in { << >>, << ".", "t" >>, << "." >>, << ".", "<" >> } }

InitSanitize ==
    \E filename \in SeqsUpTo(NameChars, MaxNameLen) \cup LongNames :
        InitWith(<< "t", "/", "*" >>, filename, no_boot)

Sanitize ==
    /\ result = << >>
    /\ result' = << _sanitize_filename(arg) >>
    /\ UNCHANGED << boot, db_manager, records, objects, next_id,
                    allowed_file_types, phase, health_status, last, sent,
                    named, delete_called, deleted, store_failed, arg,
                    requests >>

SanitizeStartup == \E cm, co \in BOOLEAN : startup_event(cm, co, TRUE, TRUE)

SanitizeUpload ==
    \E filename \in { arg, << "a", ".", "t" >> } :
        Upload(filename, << "t", "/", "p" >>, << 1 >>, "none", MaxFaultFiles)

SanitizeRename ==
    \E file_id \in 1..MaxFaultFiles : Rename(file_id, arg, "none")

NextSanitize ==
    \/ Sanitize
    \/ SanitizeStartup
    \/ SanitizeUpload
    \/ SanitizeRename

SpecSanitize == InitSanitize /\ [][NextSanitize]_vars

(***************************************************************************)
(* SpecStartup: startup_event and connect_with_retry step by step.  The    *)
(* settings are drawn at the start; the process is either startup_event    *)
(* (which passes the settings to connect_with_retry, or connects directly  *)
(* when retry is disabled) or a call of connect_with_retry with arguments  *)
(* of its own.  Every attempt on a store may succeed or fail.  Delays are  *)
(* counted in tenths of a second.  The event loop runs the process until   *)
(* it returns, and every call on a store returns or raises (the clients    *)
(* time out), hence the weak fairness.                                     *)
(***************************************************************************)
MaxRetries == 3      \* largest db_max_retries / max_retries drawn

RetryDelays == { 1, 3 }

RetryArgs == { << >> } \cup { << n >> : n \in 0..MaxRetries }

DelayArgs == { << >>, << 0 >>, << 2 >> }

InitStartup ==
    \E enabled \in BOOLEAN, retries \in 1..MaxRetries, delay \in RetryDelays :
        InitWith(<< "*", "/", "*" >>, << >>,
                 [ no_boot EXCEPT !.db_retry_enabled = enabled,
                                  !.db_max_retries = retries,
                                  !.db_retry_delay = delay ])

\* startup_event up to its first await (lines 136-146, 155)
startup_begin ==
    /\ boot.pc = "start"
    /\ boot' = IF boot.db_retry_enabled
               THEN connect_with_retry(boot, "startup",
                                       << boot.db_max_retries >>,
                                       << boot.db_retry_delay >>)
               ELSE [ boot EXCEPT !.pc = "direct", !.caller = "startup" ]
    /\ UNCHANGED << db_manager, records, objects, next_id, allowed_file_types,
                    phase, health_status, last, sent, named, delete_called,
                    deleted, store_failed, arg, result, requests >>

\* a call of db_manager.connect_with_retry(max_retries, initial_delay)
call_connect_with_retry(max_retries, initial_delay) ==
    /\ boot.pc = "start"
    /\ boot' = connect_with_retry(boot, "direct", max_retries, initial_delay)
    /\ UNCHANGED << db_manager, records, objects, next_id, allowed_file_types,
                    phase, health_status, last, sent, named, delete_called,
                    deleted, store_failed, arg, result, requests >>

\* one iteration of the MongoDB loop (lines 227-242) or of the MinIO loop
\* (lines 245-260); ok: the store answers this attempt
retry_attempt(ok) ==
    /\ boot.pc = "retry"
    /\ ~boot.broke
    /\ boot.attempt < boot.max_retries
    /\ boot' = retry_iteration(boot, connect_returns(ok))
    /\ db_manager' = IF boot.store = "mongodb"
                     THEN connect_to_mongodb(db_manager, ok)
                     ELSE connect_to_minio(db_manager, ok)
    /\ UNCHANGED << records, objects, next_id, allowed_file_types, phase,
                    health_status, last, sent, named, delete_called, deleted,
                    store_failed, arg, result, requests >>

\* the end of a loop of connect_with_retry: on to the MinIO loop, or return
\* the results (to startup_event: lines 147-154)
retry_loop_end ==
    /\ boot.pc = "retry"
    /\ boot.broke \/ boot.attempt >= boot.max_retries
    /\ boot' =
         IF boot.store = "mongodb"
         THEN [ boot EXCEPT !.store = "minio", !.attempt = 0, !.broke = FALSE ]
         ELSE IF boot.caller = "startup"
         THEN [ boot EXCEPT !.pc = "connected",
                            !.mongodb_success = boot.results.mongodb.success,
                            !.minio_success = boot.results.minio.success ]
         ELSE [ boot EXCEPT !.pc = "return" ]
    /\ UNCHANGED << db_manager, records, objects, next_id, allowed_file_types,
                    phase, health_status, last, sent, named, delete_called,
                    deleted, store_failed, arg, result, requests >>

\* startup_event with retry disabled (lines 155-157): one connect call on
\* each store; an exception out of either is re-raised by startup_event
\* (lines 175-177)
startup_direct(connect_mongodb, connect_minio) ==
    /\ boot.pc = "direct"
    /\ LET dm1 == connect_to_mongodb(db_manager, connect_mongodb)
           dm2 == connect_to_minio(dm1, connect_minio)
           b1  == [ boot EXCEPT !.calls.mongodb = @ + 1 ]
           b2  == [ b1 EXCEPT !.calls.minio = @ + 1 ]
       IN  IF connect_returns(connect_mongodb) \notin { "True", "False" }
           THEN /\ db_manager' = dm1
                /\ boot' = [ b1 EXCEPT !.pc = "aborted" ]
           ELSE IF connect_returns(connect_minio) \notin { "True", "False" }
           THEN /\ db_manager' = dm2
                /\ boot' = [ b2 EXCEPT !.pc = "aborted" ]
           ELSE /\ db_manager' = dm2
                /\ boot' = [ b2 EXCEPT
                               !.pc = "connected",
                               !.mongodb_success =
                                  connect_returns(connect_mongodb) = "True",
                               !.minio_success =
                                  connect_returns(connect_minio) = "True",
                               !.succeeded =
                                  [ mongodb |-> connect_mongodb,
                                    minio |-> connect_minio ] ]
    /\ UNCHANGED << records, objects, next_id, allowed_file_types, phase,
                    health_status, last, sent, named, delete_called, deleted,
                    store_failed, arg, result, requests >>

\* startup_event from the end of the connects: the health check, then
\* "ready to serve requests" (lines 159-179)
startup_ready(ping_mongodb, ping_minio) ==
    /\ boot.pc = "connected"
    /\ \E hc \in { health_check(db_manager, ping_mongodb, ping_minio) } :
           /\ db_manager' = hc.dm
           /\ health_status' = hc.status
    /\ boot' = [ boot EXCEPT !.pc = "ready" ]
    /\ phase' = "serving"
    /\ UNCHANGED << records, objects, next_id, allowed_file_types, last, sent,
                    named, delete_called, deleted, store_failed, arg, result,
                    requests >>

StartupBegin == startup_begin

CallConnectWithRetry ==
    \E max_retries \in RetryArgs, initial_delay \in DelayArgs :
        call_connect_with_retry(max_retries, initial_delay)

RetryAttempt == \E ok \in BOOLEAN : retry_attempt(ok)

RetryLoopEnd == retry_loop_end

StartupDirect == \E cm, co \in BOOLEAN : startup_direct(cm, co)

StartupReady == \E pm, po \in BOOLEAN : startup_ready(pm, po)

NextStartup ==
    \/ StartupBegin
    \/ CallConnectWithRetry
    \/ RetryAttempt
    \/ RetryLoopEnd
    \/ StartupDirect
    \/ StartupReady

SpecStartup == InitStartup /\ [][NextStartup]_vars /\ WF_vars(NextStartup)

(***************************************************************************)
(* SpecManager: the operations of DatabaseManager called in any order on   *)
(* the module-level manager, each completing before the state is looked    *)
(* at: connect_to_mongodb, connect_to_minio, health_check,                 *)
(* close_connections, and connect_with_retry attempt by attempt (its       *)
(* awaits let the other operations in between).  A connect call and a ping *)
(* may succeed or fail whatever the state of the manager.                  *)
(***************************************************************************)
InitManager == InitWith(<< "*", "/", "*" >>, << >>, no_boot)

\* what a manager operation leaves behind for the properties: its name,
\* what it returned and the connected flag it found
manager_call(op, returned, found_connected) ==
    [ no_response EXCEPT !.op = op, !.detail = returned,
                         !.body = << found_connected >> ]

\* await db_manager.connect_to_mongodb()
manager_connect_to_mongodb(ok) ==
    /\ db_manager' = connect_to_mongodb(db_manager, ok)
    /\ last' = manager_call("connect_to_mongodb", connect_returns(ok),
                            db_manager._mongodb_connected)
    /\ UNCHANGED << boot, records, objects, next_id, allowed_file_types,
                    phase, health_status, sent, named, delete_called, deleted,
                    store_failed, arg, result, requests >>

\* db_manager.connect_to_minio()
manager_connect_to_minio(ok) ==
    /\ db_manager' = connect_to_minio(db_manager, ok)
    /\ last' = manager_call("connect_to_minio", connect_returns(ok),
                            db_manager._minio_connected)
    /\ UNCHANGED << boot, records, objects, next_id, allowed_file_types,
                    phase, health_status, sent, named, delete_called, deleted,
                    store_failed, arg, result, requests >>

\* await db_manager.health_check()
manager_health_check(ping_mongodb, ping_minio) ==
    /\ \E hc \in { health_check(db_manager, ping_mongodb, ping_minio) } :
           /\ db_manager' = hc.dm
           /\ health_status' = hc.status
           /\ last' = manager_call("health_check", hc.status.overall.status,
                                   db_manager._mongodb_connected)
    /\ UNCHANGED << boot, records, objects, next_id, allowed_file_types,
                    phase, sent, named, delete_called, deleted, store_failed,
                    arg, result, requests >>

\* await db_manager.close_connections()
manager_close_connections ==
    /\ db_manager' = close_connections(db_manager)
    /\ last' = manager_call("close_connections", None,
                            db_manager._mongodb_connected)
    /\ UNCHANGED << boot, records, objects, next_id, allowed_file_types,
                    phase, health_status, sent, named, delete_called, deleted,
                    store_failed, arg, result, requests >>

\* connect_with_retry returns its results (line 262); the caller may call
\* it again
manager_retry_returns ==
    /\ boot.pc = "return"
    /\ boot' = no_boot
    /\ last' = manager_call("connect_with_retry",
                            IF boot.results.mongodb.success
                               /\ boot.results.minio.success
                            THEN "True" ELSE "False",
                            db_manager._mongodb_connected)
    /\ UNCHANGED << db_manager, records, objects, next_id, allowed_file_types,
                    phase, health_status, sent, named, delete_called, deleted,
                    store_failed, arg, result, requests >>

ManagerConnectMongodb == \E ok \in BOOLEAN : manager_connect_to_mongodb(ok)

ManagerConnectMinio == \E ok \in BOOLEAN : manager_connect_to_minio(ok)

ManagerHealthCheck == \E pm, po \in BOOLEAN : manager_health_check(pm, po)

ManagerClose == manager_close_connections

ManagerCallRetry ==
    \E max_retries \in { << >>, << MaxRetries >> } :
        call_connect_with_retry(max_retries, << >>)

ManagerRetryAttempt == \E ok \in BOOLEAN : retry_attempt(ok)

ManagerRetryLoopEnd == retry_loop_end

ManagerRetryReturns == manager_retry_returns

NextManager ==
    \/ ManagerConnectMongodb
    \/ ManagerConnectMinio
    \/ ManagerHealthCheck
    \/ ManagerClose
    \/ ManagerCallRetry
    \/ ManagerRetryAttempt
    \/ ManagerRetryLoopEnd
    \/ ManagerRetryReturns

SpecManager == InitManager /\ [][NextManager]_vars

(***************************************************************************)
(* SpecRace: requests on one stored file running concurrently.  Both       *)
(* stores are connected and answer every call (no outage).  A handler is a *)
(* coroutine (and the service may run several workers), and neither store  *)
(* is locked, so the store calls of the requests in flight interleave in   *)
(* any order; each call on a store is one step.                            *)
(***************************************************************************)
MaxRequests == 3     \* requests in flight together

RaceNames == { << "b" >> }

\* a request that has passed the checks of its handler and is about to look
\* its record up (download_file 152-155, update_file_name 181-189,
\* delete_file 206-209)
request_begin(op, file_id, new_name) ==
    /\ phase = "serving"
    /\ Len(requests) < MaxRequests
    /\ requests' = Append(requests,
                          [ op |-> op, file_id |-> file_id,
                            sanitized_name |-> _sanitize_filename(new_name),
                            pc |-> "find_one", file_doc |-> << >>,
                            status |-> 0, detail |-> "", body |-> << >> ])
    /\ UNCHANGED << boot, db_manager, records, objects, next_id,
                    allowed_file_types, phase, health_status, last, sent,
                    named, delete_called, deleted, store_failed, arg,
                    result >>

\* the store call a handler makes once it has found the record
next_call(op) ==
    CASE op = "download" -> "get_object"
      [] op = "rename" -> "update_one"
      [] OTHER -> "remove_object"

\* get_file_by_id answers request p: the document, or None and then 404
request_find_one(p) ==
    /\ requests[p].pc = "find_one"
    /\ LET found == get_file_by_id(requests[p].file_id, "none")
       IN  requests' =
             [ requests EXCEPT ![p] =
                 IF found[1] # 0
                 THEN [ @ EXCEPT !.pc = "done", !.status = found[1],
                                 !.detail = "Failed to get file" ]
                 ELSE IF found[2] = << >>
                 THEN [ @ EXCEPT !.pc = "done", !.status = 404,
                                 !.detail = "File not found" ]
                 ELSE [ @ EXCEPT !.file_doc = found[2],
                                 !.pc = next_call(requests[p].op) ] ]
    /\ UNCHANGED << boot, db_manager, records, objects, next_id,
                    allowed_file_types, phase, health_status, last, sent,
                    named, delete_called, deleted, store_failed, arg,
                    result >>

\* download_file 159-177: get_object and read; a missing key raises S3Error
request_get_object(p) ==
    /\ requests[p].pc = "get_object"
    /\ requests' =
         [ requests EXCEPT ![p] =
             IF @.file_id \notin DOMAIN objects
             THEN [ @ EXCEPT !.pc = "done", !.status = 500,
                             !.detail = "Download failed" ]
             ELSE [ @ EXCEPT !.pc = "done", !.status = 200, !.detail = "OK",
                             !.body = get_object(objects,
                                                requests[p].file_id) ] ]
    /\ UNCHANGED << boot, db_manager, records, objects, next_id,
                    allowed_file_types, phase, health_status, last, sent,
                    named, delete_called, deleted, store_failed, arg,
                    result >>

\* update_file_name 193-199: update_one, whose result is not looked at
request_update_one(p) ==
    /\ requests[p].pc = "update_one"
    /\ records' = update_one(records, requests[p].file_id,
                             requests[p].sanitized_name)
    /\ requests' =
         [ requests EXCEPT ![p] =
             [ @ EXCEPT !.pc = "done", !.status = 200,
                        !.detail = "File name updated successfully" ] ]
    /\ UNCHANGED << boot, db_manager, objects, next_id, allowed_file_types,
                    phase, health_status, last, sent, named, delete_called,
                    deleted, store_failed, arg, result >>

\* delete_file 213-218: remove_object
request_remove_object(p) ==
    /\ requests[p].pc = "remove_object"
    /\ objects' = remove_object(objects, requests[p].file_id)
    /\ requests' = [ requests EXCEPT ![p] = [ @ EXCEPT !.pc = "delete_one" ] ]
    /\ UNCHANGED << boot, db_manager, records, next_id, allowed_file_types,
                    phase, health_status, last, sent, named, delete_called,
                    deleted, store_failed, arg, result >>

\* delete_file 220-223: delete_one, whose result is not looked at
request_delete_one(p) ==
    /\ requests[p].pc = "delete_one"
    /\ records' = delete_one(records, requests[p].file_id)
    /\ requests' =
         [ requests EXCEPT ![p] =
             [ @ EXCEPT !.pc = "done", !.status = 200,
                        !.detail = "File deleted successfully" ] ]
    /\ UNCHANGED << boot, db_manager, objects, next_id, allowed_file_types,
                    phase, health_status, last, sent, named, delete_called,
                    deleted, store_failed, arg, result >>

RaceStartup == requests = << >> /\ startup_event(TRUE, TRUE, TRUE, TRUE)

RaceUpload ==
    /\ requests = << >>
    /\ Upload(<< "a", ".", "t" >>, << "t", "/", "p" >>, << 1 >>, "none",
              MaxFaultFiles)

RequestBegin ==
    \E op \in { "download", "rename", "delete" },
       file_id \in 1..MaxFaultFiles, new_name \in RaceNames :
        request_begin(op, file_id, new_name)

RequestFindOne == \E p \in DOMAIN requests : request_find_one(p)

RequestGetObject == \E p \in DOMAIN requests : request_get_object(p)

RequestUpdateOne == \E p \in DOMAIN requests : request_update_one(p)

RequestRemoveObject == \E p \in DOMAIN requests : request_remove_object(p)

RequestDeleteOne == \E p \in DOMAIN requests : request_delete_one(p)

NextRace ==
    \/ RaceStartup
    \/ RaceUpload
    \/ RequestBegin
    \/ RequestFindOne
    \/ RequestGetObject
    \/ RequestUpdateOne
    \/ RequestRemoveObject
    \/ RequestDeleteOne

InitRace == InitWith(<< "t", "/", "*" >>, << >>, no_boot)

SpecRace == InitRace /\ [][NextRace]_vars

(***************************************************************************)
(* Properties.                                                             *)
(***************************************************************************)
\* the step is a request on file_id answered by one of the three handlers
\* that address a stored file
RequestOn(file_id) ==
    /\ last' # last
    /\ last'.op \in { "download", "rename", "delete" }
    /\ last'.file_id = file_id

\* C1: a download of the file_id returned by an accepted upload, with no
\* delete of that id run in between, returns exactly the uploaded bytes
\* (or, when a store refuses or fails the call, a 500 and no bytes),
\* whatever renames and whatever requests on other ids came in between.
RoundTrip ==
    ( /\ last.op = "download"
      /\ last.file_id \in DOMAIN sent
      /\ last.file_id \notin delete_called )
    => \/ last.status = 200 /\ last.body = sent[last.file_id]
       \/ last.status = 500 /\ last.failed /\ last.body = << >>

RoundTripWitness ==
    /\ last.op = "download"
    /\ last.status = 200
    /\ last.body = sent[last.file_id]
    /\ records[last.file_id].name # << "a", ".", "t" >>
    /\ deleted # {}
    /\ \E other \in DOMAIN sent : sent[other] # last.body

\* C2 as stated: once delete_file(id) has returned success, every later
\* download, rename and delete on id is answered 404 'File not found'.
DeletedAnswers404 ==
    [][ \A id \in deleted :
          RequestOn(id) => /\ last'.status = 404
                           /\ last'.detail = "File not found" ]_vars

\* C2 amended: once delete_file(id) has returned success, no later download,
\* rename or delete on id succeeds or changes a store: it is answered 404
\* 'File not found', except a rename with an empty name (400) and a request
\* whose metadata lookup is refused or fails (500).
DeletedUnreachable ==
    [][ \A id \in deleted :
          RequestOn(id) =>
            /\ records' = records
            /\ objects' = objects
            /\ \/ last'.status = 404 /\ last'.detail = "File not found"
               \/ /\ last'.status = 400
                  /\ last'.op = "rename"
                  /\ last'.filename = << >>
               \/ /\ last'.status = 500
                  /\ last'.failed
                  /\ last'.detail = "Failed to get file" ]_vars

DeletedUnreachableWitness ==
    /\ last.op = "rename"
    /\ last.file_id \in deleted
    /\ last.status = 404
    /\ records # NoStore

\* C3: a successful rename changes the name of the record with that id and
\* nothing else: not its other fields, not another record, not an object.
RenameFrame ==
    [][ ( /\ last' # last
          /\ last'.op = "rename"
          /\ last'.status = 200 )
        => /\ objects' = objects
           /\ DOMAIN records' = DOMAIN records
           /\ \A id \in DOMAIN records :
                IF id = last'.file_id
                THEN records'[id] =
                       [ records[id] EXCEPT !.name = records'[id].name ]
                ELSE records'[id] = records[id] ]_vars

RenameFrameWitness ==
    /\ last.op = "rename"
    /\ last.status = 200
    /\ Cardinality(DOMAIN records) = 2
    /\ records[last.file_id].name = << "b" >>
    /\ records[last.file_id].extension = << ".", "t" >>

\* C6: after any sequence of uploads, renames and deletes in which no store
\* call failed or was refused, every record has an object under its file_id.
StoreConsistency ==
    ~store_failed => \A id \in DOMAIN records : id \in DOMAIN objects

StoreConsistencyWitness ==
    /\ ~store_failed
    /\ deleted # {}
    /\ records # NoStore
    /\ last.op = "rename"
    /\ last.status = 200

\* C4: the combined status of DatabaseManager.health_check is healthy
\* (overall.healthy true) only when both pings succeed, degraded when
\* exactly one does, unhealthy when neither does.
HealthCombined ==
    health_status.overall.status # "none" =>
      LET m == health_status.mongodb.connected
          o == health_status.minio.connected
      IN  /\ health_status.overall.healthy = (m /\ o)
          /\ health_status.overall.status =
               IF m /\ o THEN "healthy"
               ELSE IF m \/ o THEN "degraded" ELSE "unhealthy"

\* C5: GET /health answers 200 'healthy' exactly when both stores answer
\* their ping, and 503 otherwise: 'degraded' when exactly one answers,
\* 'unhealthy' when neither does or when the health check raises.
HealthEndpoint ==
    last.op = "health" =>
      LET m == health_status.mongodb.connected
          o == health_status.minio.connected
      IN  IF last.failed
          THEN last.status = 503 /\ last.detail = "unhealthy"
          ELSE IF m /\ o
          THEN last.status = 200 /\ last.detail = "healthy"
          ELSE IF m \/ o
          THEN last.status = 503 /\ last.detail = "degraded"
          ELSE last.status = 503 /\ last.detail = "unhealthy"

\* membership of the allow-list as the configuration documents it: the
\* setting "*/*" admits every type; otherwise an entry "T/*" admits every
\* type that starts with "T/" and any other entry the type equal to it
InAllowList(content_type, setting) ==
    LET types == allowed_file_types_list(setting)
    IN  /\ content_type # << >>
        /\ \/ setting = << "*", "/", "*" >>
           \/ \E i \in 1..Len(types) :
                \/ /\ EndsWith(types[i], << "/", "*" >>)
                   /\ StartsWith(content_type,
                                 SubSeq(types[i], 1, Len(types[i]) - 1))
                \/ content_type = types[i]

\* C7: an upload whose content type is not in the allow-list (an empty one
\* included) is answered 400 before the body is read and before any call
\* on either store, and leaves both stores as they were.
TypeRejectedFirst ==
    [][ ( /\ last' # last
          /\ last'.op = "upload"
          /\ ~InAllowList(last'.content_type, allowed_file_types) )
        => /\ last'.status = 400
           /\ ~last'.read_called
           /\ last'.minio_calls = 0
           /\ last'.mongo_calls = 0
           /\ records' = records
           /\ objects' = objects ]_vars

TypeRejectedFirstWitness ==
    /\ last.op = "upload"
    /\ last.filename # << >>
    /\ last.content_type = << "x", "/", "y" >>
    /\ allowed_file_types = << "t", "/", "*" >>
    /\ last.status = 400
    /\ records # NoStore
    /\ objects # NoStore

\* C8 as stated: an upload (of a named file) whose body is longer than
\* max_file_size is answered 413 and leaves no object and no record; a
\* body of exactly max_file_size passes the size check.
OversizeAnswers413 ==
    [][ ( last' # last /\ last'.op = "upload" /\ last'.filename # << >> )
        => /\ last'.size > max_file_size =>
                /\ last'.status = 413
                /\ records' = records
                /\ objects' = objects
           /\ last'.size = max_file_size => last'.status # 413 ]_vars

\* the upload got as far as the size check: it has a file name and an
\* accepted content type, and its body was read
ReachedSizeCheck(resp) ==
    /\ resp.filename # << >>
    /\ _validate_file_type(resp.content_type, allowed_file_types) = 0
    /\ resp.read_called
    /\ resp.detail # "Failed to read file"

\* C8 amended: an upload whose body is longer than max_file_size is
\* rejected without any call on either store and leaves no object and no
\* record; the answer is 413 when the upload gets as far as the size check
\* and the 400 of the earlier check that stopped it otherwise.  A body of
\* exactly max_file_size passes the size check.
OversizeRejected ==
    [][ ( last' # last /\ last'.op = "upload" )
        => /\ last'.size > max_file_size =>
                /\ last'.status = IF ReachedSizeCheck(last') THEN 413 ELSE 400
                /\ last'.minio_calls = 0
                /\ last'.mongo_calls = 0
                /\ records' = records
                /\ objects' = objects
           /\ last'.size = max_file_size => last'.status # 413 ]_vars

OversizeRejectedWitness ==
    /\ last.op = "upload"
    /\ last.size = max_file_size + 1
    /\ last.status = 413
    /\ db_manager._minio_connected
    /\ db_manager._mongodb_connected

\* C9: with the setting "*/*" _validate_file_type accepts every non-empty
\* content type; with an entry "T/*" it accepts every content type that
\* starts with "T/"; otherwise it accepts a content type only when it
\* equals an entry.
TypeValidation ==
    result # << >> =>
      ( result[1] = 0 <=> InAllowList(arg, allowed_file_types) )

ReservedChars == { "<", ">", ":", "\"", "|", "?", "*", "\\", "/" }

NoReserved(name) == \A i \in 1..Len(name) : name[i] \notin ReservedChars

\* C10: the result of _sanitize_filename contains none of the characters
\* < > : " | ? * \ / and so does the name of every record that upload or
\* rename has written.
SanitizedNames ==
    /\ result # << >> => NoReserved(result[1])
    /\ \A id \in DOMAIN records : NoReserved(records[id].name)

SanitizedNamesWitness ==
    /\ arg = << "/", "\\" >>
    /\ result = << << "_" >> >>
    /\ last.op = "rename"
    /\ last.status = 200
    /\ \E id \in DOMAIN records : records[id].name = << "_" >>

\* the step is a request by one of the three handlers that address a stored
\* file, on a non-empty id that has no record (a rename with a non-empty name)
OnMissingRecord ==
    /\ last' # last
    /\ last'.op \in { "download", "rename", "delete" }
    /\ last'.file_id # 0
    /\ last'.op = "rename" => last'.filename # << >>
    /\ last'.file_id \notin DOMAIN records

\* C11 as stated: download_file, update_file_name (non-empty name) and
\* delete_file on a non-empty id that has no record answer 404 'File not
\* found', with no call on the object store and no write on the metadata
\* store.
MissingAnswers404 ==
    [][ OnMissingRecord
        => /\ last'.status = 404
           /\ last'.detail = "File not found"
           /\ last'.minio_calls = 0
           /\ records' = records
           /\ objects' = objects ]_vars

\* C11 amended: download_file, update_file_name (non-empty name) and
\* delete_file on a non-empty id that has no record make no call on the
\* object store and no write on the metadata store; they answer 404 'File
\* not found' when the metadata lookup answers, and 500 'Failed to get file'
\* when the lookup is refused (MongoDB not connected) or fails.
MissingUntouched ==
    [][ OnMissingRecord
        => /\ last'.minio_calls = 0
           /\ last'.mongo_calls <= 1
           /\ records' = records
           /\ objects' = objects
           /\ IF last'.failed
              THEN last'.status = 500 /\ last'.detail = "Failed to get file"
              ELSE last'.status = 404 /\ last'.detail = "File not found" ]_vars

\* a delete answered 404 although an object is stored under the id (left by
\* an upload whose insert failed): the object store is not called
MissingUntouchedWitness ==
    /\ last.op = "delete"
    /\ last.status = 404
    /\ last.file_id \in DOMAIN objects
    /\ last.file_id \notin DOMAIN records
    /\ last.minio_calls = 0

\* the store is currently connected: the service is running and the store
\* answered the latest health check (the one that ends startup included)
CurrentlyConnected(store) ==
    phase = "serving" /\ health_status[store].connected

\* C12: the accessors mongodb_client, database, files_collection and
\* minio_client raise DatabaseConnectionError whenever their store is not
\* currently connected (before startup, after a failed connect, after a
\* failed health ping, after shutdown) and return the handle otherwise;
\* they never return None.
AccessorsGuarded ==
    LET mongodb == << mongodb_client(db_manager), database(db_manager),
                      files_collection(db_manager) >>
        minio   == minio_client(db_manager)
    IN  /\ \A i \in 1..3 : mongodb[i] # None
        /\ minio # None
        /\ mongodb = IF CurrentlyConnected("mongodb")
                     THEN << "client", "database", "collection" >>
                     ELSE << DatabaseConnectionError, DatabaseConnectionError,
                             DatabaseConnectionError >>
        /\ minio = IF CurrentlyConnected("minio")
                   THEN "client" ELSE DatabaseConnectionError

\* MongoDB was connected (a record was written) and a failed health ping
\* has marked it down; MinIO is still connected
AccessorsGuardedWitness ==
    /\ phase = "serving"
    /\ last.op = "health"
    /\ records # NoStore
    /\ files_collection(db_manager) = DatabaseConnectionError
    /\ mongodb_client(db_manager) = DatabaseConnectionError
    /\ minio_client(db_manager) = "client"

\* C13: startup_event, once begun, always reaches "ready to serve
\* requests", whatever the attempts on the two stores answer and with retry
\* enabled or disabled; it never aborts.
StartupCompletes ==
    /\ [](boot.pc # "aborted")
    /\ (boot.caller = "startup") ~> (boot.pc = "ready")

\* ready with retry enabled after every attempt on both stores failed
StartupCompletesWitness ==
    /\ boot.pc = "ready"
    /\ boot.caller = "startup"
    /\ boot.db_retry_enabled
    /\ boot.calls = [ mongodb |-> MaxRetries, minio |-> MaxRetries ]
    /\ ~boot.mongodb_success
    /\ ~boot.minio_success
    /\ phase = "serving"

\* the files uploaded and not since deleted
Present == DOMAIN sent \ deleted

\* files lists every present file exactly once, under its current name,
\* and nothing else
ListsPresent(files) ==
    /\ Len(files) = Cardinality(Present)
    /\ \A i \in 1..Len(files) :
         /\ files[i].file_id \in Present
         /\ files[i].name = named[files[i].file_id]
    /\ \A i, j \in 1..Len(files) :
         files[i].file_id = files[j].file_id => i = j

\* C14: after uploads, renames and deletes none of which met a store
\* failure, list_files returns one entry for each file uploaded and not
\* since deleted, none missing, duplicated or stale, each with the current
\* name (the listing itself answers 500 with no entries when its own store
\* call is refused).
ListComplete ==
    [][ ( last' # last /\ last'.op = "list" /\ ~store_failed )
        => \/ /\ last'.status = 200
              /\ ListsPresent(last'.files)
           \/ /\ last'.status = 500
              /\ last'.failed
              /\ last'.files = << >> ]_vars

\* a listing of one file, renamed since its upload, after another file was
\* deleted
ListCompleteWitness ==
    /\ last.op = "list"
    /\ last.status = 200
    /\ ~store_failed
    /\ deleted # {}
    /\ Len(last.files) = 1
    /\ last.files[1].name = << "b" >>
    /\ ListsPresent(last.files)

\* C15: get_file_by_id, download_file, update_file_name and delete_file
\* called with an empty file_id answer 400 'File ID is required' without
\* any call on either store; update_file_name with a non-empty id and an
\* empty new name answers 400 'New file name is required'; upload with a
\* missing file name answers 400 'No file provided'.
RequiredInputs ==
    [][ last' # last
        => /\ ( /\ last'.op \in { "get", "download", "rename", "delete" }
                /\ last'.file_id = 0 )
              => /\ last'.status = 400
                 /\ last'.detail = "File ID is required"
                 /\ last'.minio_calls = 0
                 /\ last'.mongo_calls = 0
                 /\ records' = records
                 /\ objects' = objects
           /\ ( /\ last'.op = "rename"
                /\ last'.file_id # 0
                /\ last'.filename = << >> )
              => /\ last'.status = 400
                 /\ last'.detail = "New file name is required"
           /\ ( last'.op = "upload" /\ last'.filename = << >> )
              => /\ last'.status = 400
                 /\ last'.detail = "No file provided" ]_vars

\* a rename to the empty name of a file that is stored, both stores
\* connected
RequiredInputsWitness ==
    /\ last.op = "rename"
    /\ last.file_id \in DOMAIN records
    /\ last.filename = << >>
    /\ last.status = 400
    /\ last.detail = "New file name is required"
    /\ db_manager._mongodb_connected
    /\ db_manager._minio_connected

Stores == { "mongodb", "minio" }

\* connect_with_retry has returned
Returned == boot.pc \in { "return", "connected", "ready" } /\ boot.caller # "none"

RetryAttemptsPositive ==
    /\ []( ( /\ Returned
             /\ boot.arg_max_retries # << >>
             /\ boot.arg_max_retries # << 0 >> ) =>
             \A store \in Stores :
               /\ boot.calls[store] <= boot.arg_max_retries[1]
               /\ ~boot.succeeded[store] =>
                    boot.calls[store] = boot.arg_max_retries[1]
               /\ boot.results[store].attempts = boot.calls[store]
               /\ boot.results[store].success = boot.succeeded[store] )
    /\ [][ \A store \in Stores :
             boot.succeeded[store] =>
               boot'.calls[store] = boot.calls[store] ]_vars

\* the sleeps connect_with_retry makes on a store over calls attempts: none
\* before the first attempt, initial_delay * 2^(k-2) before attempt k
Backoff(store, calls, initial_delay) ==
    [ i \in 1..(calls - 1) |->
        [ store |-> store, attempt |-> i + 1,
          delay |-> initial_delay * (2 ^ (i - 1)) ] ]

\* C17: in connect_with_retry there is no delay before the first attempt on
\* a store and the delay before attempt k >= 2 is initial_delay * 2^(k-2),
\* starting again from initial_delay on the second store (initial_delay
\* being the value the routine works with: its argument, or the setting
\* db_retry_delay when the argument is None or 0).
BackoffDelays ==
    boot.sleeps = Backoff("mongodb", boot.calls.mongodb, boot.initial_delay)
                  \o Backoff("minio", boot.calls.minio, boot.initial_delay)

\* MaxRetries failed attempts on each store with initial_delay 2: the last
\* sleep, before the last attempt on MinIO, is 2 * 2^(MaxRetries - 2)
BackoffDelaysWitness ==
    /\ boot.pc = "return"
    /\ boot.initial_delay = 2
    /\ boot.calls = [ mongodb |-> MaxRetries, minio |-> MaxRetries ]
    /\ Len(boot.sleeps) = 2 * (MaxRetries - 1)
    /\ boot.sleeps[MaxRetries - 1].store = "mongodb"
    /\ boot.sleeps[MaxRetries].store = "minio"
    /\ boot.sleeps[MaxRetries].attempt = 2
    /\ boot.sleeps[MaxRetries].delay = 2
    /\ boot.sleeps[Len(boot.sleeps)].delay = 2 * (2 ^ (MaxRetries - 2))

\* C18: when connect_with_retry returns, the result of a store that failed
\* every attempt has success = false and an 'error' that is not None, and
\* the result of a store that connected has success = true and error None.
RetryErrorReported ==
    Returned /\ boot.max_retries > 0 =>
      \A store \in Stores :
        IF boot.succeeded[store]
        THEN /\ boot.results[store].success
             /\ boot.results[store].error = None
        ELSE /\ ~boot.results[store].success
             /\ boot.results[store].error # None

\* C19: delete_file removes the object first and the record second.  For a
\* delete whose lookup found the record: if the object removal fails (or
\* MinIO is not connected) the answer is 500 and record and object are
\* unchanged; if the removal succeeds and the metadata delete fails the
\* answer is 500, the record remains and its object is gone; otherwise
\* both are removed.
DeleteOrder ==
    [][ ( /\ last' # last
          /\ last'.op = "delete"
          /\ last'.file_id \in DOMAIN records
          /\ files_collection(db_manager) # DatabaseConnectionError
          /\ last'.fail_at # "find_one" )
        => LET id == last'.file_id
           IN  IF \/ minio_client(db_manager) = DatabaseConnectionError
                  \/ last'.fail_at = "remove_object"
               THEN /\ last'.status = 500
                    /\ records' = records
                    /\ objects' = objects
               ELSE IF last'.fail_at = "delete_one"
               THEN /\ last'.status = 500
                    /\ records' = records
                    /\ id \notin DOMAIN objects'
                    /\ \A other \in DOMAIN objects \ { id } :
                         /\ other \in DOMAIN objects'
                         /\ objects'[other] = objects[other]
               ELSE /\ last'.status = 200
                    /\ id \notin DOMAIN records'
                    /\ id \notin DOMAIN objects' ]_vars

\* the metadata delete failed after the object was removed: the record is
\* still there and its object is not
DeleteOrderWitness ==
    /\ last.op = "delete"
    /\ last.fail_at = "delete_one"
    /\ last.status = 500
    /\ last.minio_calls = 1
    /\ last.file_id \in DOMAIN records
    /\ last.file_id \notin DOMAIN objects

\* the upload passes the checks that precede the stores: it has a file
\* name and an accepted content type, its body is read and within the size
\* ceiling
UploadValidated(resp) ==
    /\ resp.op = "upload"
    /\ resp.filename # << >>
    /\ _validate_file_type(resp.content_type, allowed_file_types) = 0
    /\ resp.fail_at # "read"
    /\ _validate_file_size(resp.size)

\* C20: upload_file writes the object before it inserts the record, so a
\* record never appears without its object.  If the object write fails (or
\* MinIO is not connected) the answer is 500 and neither store changes; if
\* the object is written and the insert fails (or MongoDB is not connected)
\* the answer is 500, there is no record and the object stays; otherwise
\* both are written.
UploadOrder ==
    [][ ( last' # last /\ UploadValidated(last') )
        => LET id == last'.file_id
           IN  /\ \A new \in DOMAIN records' \ DOMAIN records :
                    new \in DOMAIN objects'
               /\ IF \/ minio_client(db_manager) = DatabaseConnectionError
                     \/ last'.fail_at = "put_object"
                  THEN /\ last'.status = 500
                       /\ records' = records
                       /\ objects' = objects
                  ELSE IF \/ files_collection(db_manager)
                              = DatabaseConnectionError
                          \/ last'.fail_at = "insert_one"
                  THEN /\ last'.status = 500
                       /\ records' = records
                       /\ id \notin DOMAIN records'
                       /\ id \in DOMAIN objects'
                       /\ Len(objects'[id]) = last'.size
                       /\ \A other \in DOMAIN objects :
                            /\ other \in DOMAIN objects'
                            /\ objects'[other] = objects[other]
                  ELSE /\ last'.status = 200
                       /\ id \in DOMAIN records'
                       /\ id \in DOMAIN objects' ]_vars

\* an upload while MongoDB is not connected: answered 500, no record, the
\* object written
UploadOrderWitness ==
    /\ last.op = "upload"
    /\ last.status = 500
    /\ last.fail_at = "none"
    /\ ~db_manager._mongodb_connected
    /\ db_manager._minio_connected
    /\ last.minio_calls = 1
    /\ last.file_id \in DOMAIN objects
    /\ last.file_id \notin DOMAIN records

\* the step is a rename on a non-empty id whose metadata lookup, if made,
\* answers
RenameStep ==
    /\ last' # last
    /\ last'.op = "rename"
    /\ last'.file_id # 0
    /\ files_collection(db_manager) # DatabaseConnectionError
    /\ last'.fail_at # "find_one"

\* C21 as stated: update_file_name looks the record up before it checks the
\* new name, so a rename of an id that has no record is answered 404
\* whatever the new name is (no store call failing).
RenameLookupFirst ==
    [][ ( /\ RenameStep
          /\ last'.fail_at = "none"
          /\ last'.file_id \notin DOMAIN records )
        => /\ last'.status = 404
           /\ last'.detail = "File not found" ]_vars

\* C21 amended: update_file_name rejects an empty new name with 400 'New
\* file name is required' before it looks the record up, whether or not the
\* id has a record; a rename of an id that has no record is answered 404
\* only when the new name is not empty.
RenameNameFirst ==
    [][ RenameStep
        => IF last'.filename = << >>
           THEN /\ last'.status = 400
                /\ last'.detail = "New file name is required"
                /\ last'.mongo_calls = 0
           ELSE /\ last'.mongo_calls >= 1
                /\ last'.file_id \notin DOMAIN records
                     => /\ last'.status = 404
                        /\ last'.detail = "File not found" ]_vars

\* a rename of an id that has no record to the empty name, MongoDB
\* connected: answered 400 without a lookup
RenameNameFirstWitness ==
    /\ last.op = "rename"
    /\ last.file_id # 0
    /\ last.file_id \notin DOMAIN records
    /\ last.filename = << >>
    /\ last.status = 400
    /\ last.mongo_calls = 0
    /\ db_manager._mongodb_connected

\* the identifiers earlier uploads have used, as far as the stores and the
\* history show them
UsedIds == DOMAIN records \cup DOMAIN objects \cup DOMAIN sent \cup deleted

\* the fields of a record that only upload sets
Fixed(doc) ==
    << doc.file_id, doc.size, doc.content_type, doc.extension,
       doc.upload_date >>

SanitizeBoundedShortExt ==
    result # << >>
        => LET replaced == ReplaceAll(basename(arg), dangerous_chars, "_")
               ext == splitext(replaced)[2]
           IN  ( Len(replaced) > FilenameLimit /\ Len(ext) <= FilenameLimit )
                 => /\ Len(result[1]) = FilenameLimit
                    /\ EndsWith(result[1], ext)


\* the lookup of a request's record fails: MongoDB is not connected or
\* find_one raises
LookupFails(resp) ==
    \/ files_collection(db_manager) = DatabaseConnectionError
    \/ resp.fail_at = "find_one"

\* the request resp, answered from the current state, makes a call on a
\* store that fails: the store is not connected or the call raises
StoreCallFails(resp) ==
    LET id == resp.file_id
        stored == id \in DOMAIN records
        minio_down == minio_client(db_manager) = DatabaseConnectionError
    IN  \/ /\ resp.op = "list"
           /\ \/ files_collection(db_manager) = DatabaseConnectionError
              \/ resp.fail_at = "find"
        \/ /\ resp.op = "get"
           /\ id # 0
           /\ LookupFails(resp)
        \/ /\ resp.op = "upload"
           /\ UploadValidated(resp)
           /\ \/ minio_down
              \/ files_collection(db_manager) = DatabaseConnectionError
              \/ resp.fail_at \in { "put_object", "insert_one" }
        \/ /\ resp.op = "download"
           /\ id # 0
           /\ \/ LookupFails(resp)
              \/ /\ stored
                 /\ \/ minio_down
                    \/ resp.fail_at = "get_object"
                    \/ id \notin DOMAIN objects
        \/ /\ resp.op = "rename"
           /\ id # 0
           /\ resp.filename # << >>
           /\ \/ LookupFails(resp)
              \/ stored /\ resp.fail_at = "update_one"
        \/ /\ resp.op = "delete"
           /\ id # 0
           /\ \/ LookupFails(resp)
              \/ /\ stored
                 /\ \/ minio_down
                    \/ resp.fail_at \in { "remove_object", "delete_one" }

\* C24: a request in which a call on the metadata store or the object store
\* fails (the store not being connected included) is answered 500, never
\* 404 or success; and no other request is answered 500.
StoreFailureIs500 ==
    [][ last' # last
        => ( StoreCallFails(last') <=> last'.status = 500 ) ]_vars

\* a rename of a stored file whose lookup raised, answered 500
StoreFailureIs500Witness ==
    /\ last.op = "rename"
    /\ last.fail_at = "find_one"
    /\ last.file_id \in DOMAIN records
    /\ last.filename # << >>
    /\ last.status = 500
    /\ db_manager._mongodb_connected


\* the connected flags agree with the handles
FlagsMatchHandles ==
    /\ db_manager._mongodb_connected
         <=> /\ db_manager._mongodb_client # None
             /\ db_manager._database # None
             /\ db_manager._files_collection # None
    /\ db_manager._minio_connected <=> db_manager._minio_client # None

\* a step in which a connect attempt on store fails: a call of the connect
\* routine that returns False, or an iteration of connect_with_retry on
\* that store that goes on to the next attempt
FailedConnect(store) ==
    \/ /\ last' # last
       /\ last'.op = IF store = "mongodb" THEN "connect_to_mongodb"
                     ELSE "connect_to_minio"
       /\ last'.detail = "False"
    \/ /\ boot.pc = "retry"
       /\ boot.store = store
       /\ boot'.calls[store] = boot.calls[store] + 1
       /\ ~boot'.broke

\* C25: after every completed DatabaseManager operation _mongodb_connected
\* is true iff _mongodb_client, _database and _files_collection are all
\* non-null and _minio_connected is true iff _minio_client is non-null; and
\* a failed connect attempt leaves the store disconnected, also when it was
\* connected before.
ConnectionState ==
    /\ []FlagsMatchHandles
    /\ [][ /\ FailedConnect("mongodb") => ~db_manager'._mongodb_connected
           /\ FailedConnect("minio") => ~db_manager'._minio_connected ]_vars

\* connect_to_minio has just failed on a manager whose MinIO store was
\* connected, and the store is now disconnected
ConnectionStateWitness ==
    /\ last.op = "connect_to_minio"
    /\ last.detail = "False"
    /\ last.body = << TRUE >>
    /\ ~db_manager._minio_connected
    /\ db_manager._minio_client = None


\* the request resp gets as far as a call on MongoDB: every file request
\* that passes its own checks
NeedsMongodb(resp) ==
    \/ resp.op = "list"
    \/ resp.op \in { "get", "download", "delete" } /\ resp.file_id # 0
    \/ resp.op = "rename" /\ resp.file_id # 0 /\ resp.filename # << >>
    \/ UploadValidated(resp)

\* the request resp gets as far as a call on MinIO: an upload that passes
\* its checks, a download or a delete of a stored file
NeedsMinio(resp) ==
    \/ UploadValidated(resp)
    \/ /\ resp.op \in { "download", "delete" }
       /\ resp.file_id \in DOMAIN records
       /\ files_collection(db_manager) # DatabaseConnectionError

Completes(p) ==
    /\ p \in DOMAIN requests
    /\ requests[p].pc # "done"
    /\ requests'[p].pc = "done"

\* C27: with both stores up, whatever the interleaving of the store calls
\* of concurrent requests on one file_id, a download, rename or delete that
\* completes either reports 404 or reports success having taken full
\* effect: the download returns the uploaded bytes, the rename leaves a
\* record with the new name, the delete leaves neither record nor object.
\* In particular none is answered 500.
RaceOutcomes ==
    [][ \A p \in DOMAIN requests' :
          Completes(p)
            => LET r == requests'[p]
                   id == r.file_id
               IN  \/ r.status = 404
                   \/ /\ r.status = 200
                      /\ r.op = "download" => r.body = sent[id]
                      /\ r.op = "rename"
                           => /\ id \in DOMAIN records'
                              /\ records'[id].name = r.sanitized_name
                      /\ r.op = "delete"
                           => /\ id \notin DOMAIN records'
                              /\ id \notin DOMAIN objects' ]_vars

\* a download that found the record and then not the object
RaceDownload500 ==
    \E p \in DOMAIN requests :
        /\ requests[p].op = "download"
        /\ requests[p].pc = "done"
        /\ requests[p].status = 500

\* a rename that reported success with no record left to carry the name
RaceRenameLost ==
    \E p \in DOMAIN requests :
        /\ requests[p].op = "rename"
        /\ requests[p].pc = "done"
        /\ requests[p].status = 200
        /\ requests[p].file_id \notin DOMAIN records
        /\ requests[p].file_id \in DOMAIN sent


\* C28: _sanitize_filename returns a non-empty string for every input, the
\* empty input giving "unnamed_file", so no record that upload created or
\* rename changed has an empty name.
SanitizeNonEmpty ==
    /\ result # << >>
         => /\ result[1] # << >>
            /\ arg = << >> => result[1] = unnamed_file
    /\ \A id \in DOMAIN records : records[id].name # << >>

\* the part of C28 the code keeps: the result is empty only when the input
\* is not empty and ends in "/"
SanitizeEmptyOnlyForDirectory ==
    result # << >>
        => ( result[1] = << >> <=> ( arg # << >> /\ arg[Len(arg)] = "/" ) )


\* C29: _sanitize_filename is idempotent, so a rename of a file to the name
\* its record holds leaves the record as it is.
SanitizeIdempotent ==
    /\ [] ( result # << >> => _sanitize_filename(result[1]) = result[1] )
    /\ [][ ( /\ last' # last
             /\ last'.op = "rename"
             /\ last'.file_id \in DOMAIN records
             /\ last'.filename = records[last'.file_id].name )
           => records' = records ]_vars

\* the part of C29 the code keeps: sanitizing a result again changes it only
\* when the result is empty or longer than the limit
SanitizeIdempotentInRange ==
    ( /\ result # << >>
      /\ result[1] # << >>
      /\ Len(result[1]) <= FilenameLimit )
        => _sanitize_filename(result[1]) = result[1]
====
